---- MODULE Spec2Model ----
(***************************************************************************)
(* Model of the knowledge-based Minesweeper agent of minesweeper.py:       *)
(* class Sentence, class MinesweeperAI and the part of class Minesweeper   *)
(* (the board) that feeds the agent its observations.                      *)
(*                                                                         *)
(* A cell is a pair <<row, col>>.  A Sentence object is a record           *)
(* [cells, count].  self.knowledge is a Python list of Sentence objects;    *)
(* between calls it is the sequence of their values.  Inside add_knowledge  *)
(* object identity matters (the list being iterated and the list bound to  *)
(* self.knowledge are different lists sharing objects), so there the        *)
(* objects live in a heap (a sequence of values) and a list is a sequence  *)
(* of heap indices.                                                        *)
(***************************************************************************)
EXTENDS Integers, Sequences, FiniteSets

\* Board dimensions.  The agent is built with height 2 (self.height,
\* line 150); the width it is built with is the bound that is varied.
Height == 2
Width == 3
\* Largest count a caller outside consistent play passes to add_knowledge.
MaxCount == 2
\* Number of add_knowledge, mark_safe and mark_mine calls a caller outside
\* consistent play makes.
MaxCalls == 2
\* Number of calls in the longer call sequences that are followed statement
\* by statement.
MaxEntries == 3
\* The number of failed re-samples after which make_random_move scans.
MaxTries == 10

VARIABLES
    board,       \* Minesweeper.mines: the fixed mine layout
    moves_made,  \* MinesweeperAI.moves_made
    safes,       \* MinesweeperAI.safes
    mines,       \* MinesweeperAI.mines
    knowledge,   \* MinesweeperAI.knowledge, the values of its sentences in list order
    op,          \* the method that returned last
    arg,         \* the cell it was called with (None for the move queries)
    ret,         \* what it returned (None or a cell)
    obs,         \* add_knowledge: the observation sentence built at line 216
    kbIns,       \* add_knowledge: self.knowledge after lines 217-218
    calls,       \* number of calls made so far, where the caller counts them
    run          \* add_knowledge in progress: its position, arguments and locals

vars == <<board, moves_made, safes, mines, knowledge, op, arg, ret, obs, kbIns,
          calls, run>>

None == <<>>

Cells == (0 .. Height - 1) \X (0 .. Width - 1)

----------------------------------------------------------------------------
(* class Minesweeper *)

\* The cells within one row and column of cell, cell included, in bounds.
Block(cell) ==
    { c \in Cells : /\ c[1] \in (cell[1] - 1) .. (cell[1] + 1)
                    /\ c[2] \in (cell[2] - 1) .. (cell[2] + 1) }

nearby_mines(b, cell) == Cardinality({ c \in Block(cell) \ {cell} : c \in b })

----------------------------------------------------------------------------
(* class Sentence *)

Sentence(cells, count) == [cells |-> cells, count |-> count]

\* known_mines testing count >= len(cells).
known_mines_atleast(s) == IF s.count >= Cardinality(s.cells) THEN s.cells ELSE {}

known_mines(s) == IF s.count = Cardinality(s.cells) THEN s.cells ELSE {}

\* known_safes with the test of known_mines.
known_safes_swapped(s) == IF s.count = Cardinality(s.cells) THEN s.cells ELSE {}

known_safes(s) == IF s.count = 0 THEN s.cells ELSE {}

\* Sentence.mark_mine decrementing whether or not the cell is present.
Sentence_mark_mine_always(s, cell) ==
    [cells |-> s.cells \ {cell}, count |-> s.count - 1]

Sentence_mark_mine(s, cell) ==
    IF cell \in s.cells
    THEN [cells |-> s.cells \ {cell}, count |-> s.count - 1]
    ELSE s

\* Sentence.mark_safe with the body of Sentence.mark_mine.
Sentence_mark_safe_decrement(s, cell) ==
    IF cell \in s.cells
    THEN [cells |-> s.cells \ {cell}, count |-> s.count - 1]
    ELSE s

Sentence_mark_safe(s, cell) ==
    IF cell \in s.cells
    THEN [cells |-> s.cells \ {cell}, count |-> s.count]
    ELSE s

----------------------------------------------------------------------------
(* class MinesweeperAI.  An agent value ag is a record                     *)
(* [moves_made, safes, mines, heap, kb]: heap is the sequence of all        *)
(* Sentence objects, kb the list self.knowledge as heap indices.           *)

Range(seq) == { seq[i] : i \in DOMAIN seq }

\* The agent's fields as an agent value: every list element its own object.
Agent(mm, sf, mn, kn) ==
    [moves_made |-> mm, safes |-> sf, mines |-> mn,
     heap |-> kn, kb |-> [i \in 1 .. Len(kn) |-> i]]

\* The values of self.knowledge in list order.
Values(ag) == [i \in 1 .. Len(ag.kb) |-> ag.heap[ag.kb[i]]]

\* "s in self.knowledge": list membership by Sentence.__eq__.
InKnowledge(ag, s) == \E i \in 1 .. Len(ag.kb) : ag.heap[ag.kb[i]] = s

\* self.knowledge.append(Sentence(...)): a new object at the end of the list.
Append_knowledge(ag, s) ==
    [ag EXCEPT !.heap = Append(@, s), !.kb = Append(@, Len(ag.heap) + 1)]

\* mark_mine without line 168: the mark is forwarded but not recorded.
mark_mine_unrecorded(ag, cell) ==
    [ag EXCEPT !.heap = [i \in DOMAIN ag.heap |->
                            IF i \in Range(ag.kb)
                            THEN Sentence_mark_mine(ag.heap[i], cell)
                            ELSE ag.heap[i]]]

mark_mine(ag, cell) ==
    [ag EXCEPT !.mines = @ \cup {cell},
               !.heap = [i \in DOMAIN ag.heap |->
                            IF i \in Range(ag.kb)
                            THEN Sentence_mark_mine(ag.heap[i], cell)
                            ELSE ag.heap[i]]]

\* mark_safe that also withdraws the cell from mines.
mark_safe_unmine(ag, cell) ==
    [ag EXCEPT !.safes = @ \cup {cell},
               !.mines = @ \ {cell},
               !.heap = [i \in DOMAIN ag.heap |->
                            IF i \in Range(ag.kb)
                            THEN Sentence_mark_safe(ag.heap[i], cell)
                            ELSE ag.heap[i]]]

mark_safe(ag, cell) ==
    [ag EXCEPT !.safes = @ \cup {cell},
               !.heap = [i \in DOMAIN ag.heap |->
                            IF i \in Range(ag.kb)
                            THEN Sentence_mark_safe(ag.heap[i], cell)
                            ELSE ag.heap[i]]]


\* Lines 226-227 and 228-229: mark every cell of a copied set, one at a time.
\* The set is a copy, so the marks do not change what is iterated; the order
\* of iteration does not change the result.
RECURSIVE MarkSafes(_, _)
MarkSafes(ag, cs) ==
    IF cs = {} THEN ag
    ELSE LET c == CHOOSE x \in cs : TRUE
         IN  MarkSafes(mark_safe(ag, c), cs \ {c})

RECURSIVE MarkMines(_, _)
MarkMines(ag, cs) ==
    IF cs = {} THEN ag
    ELSE LET c == CHOOSE x \in cs : TRUE
         IN  MarkMines(mark_mine(ag, c), cs \ {c})

\* Line 231: self.knowledge is rebound to a NEW list of the non-empty sentences.
DropEmpty(ag) ==
    [ag EXCEPT !.kb = SelectSeq(ag.kb, LAMBDA i : ag.heap[i].cells # {})]

\* The difference sentence without the subtraction of line 236.
subset_sentence_keep_count(s, o) == Sentence(s.cells \ o.cells, s.count)

\* Lines 235-238: the difference sentence of sentence s and other sentence o.
subset_sentence(s, o) == Sentence(s.cells \ o.cells, s.count - o.count)

\* Lines 233-240: the inner loop over self.knowledge, from list position j on.
\* It appends to the list it iterates, so it also visits what it appended.
\* si is the heap index of the outer loop's sentence.
RECURSIVE InnerLoop(_, _, _)
InnerLoop(ag, si, j) ==
    IF j > Len(ag.kb) THEN ag
    ELSE LET s == ag.heap[si]
             o == ag.heap[ag.kb[j]]
         IN  IF s # o /\ o.cells \subseteq s.cells
                  /\ ~InKnowledge(ag, subset_sentence(s, o))
             THEN InnerLoop(Append_knowledge(ag, subset_sentence(s, o)), si, j + 1)
             ELSE InnerLoop(ag, si, j + 1)

\* Lines 222-240: one iteration of the outer loop, on the object at heap index si.
OuterIter(ag, si) ==
    LET sentence_safes == known_safes(ag.heap[si])
        sentence_mines == known_mines(ag.heap[si])
    IN  InnerLoop(DropEmpty(MarkMines(MarkSafes(ag, sentence_safes), sentence_mines)),
                  si, 1)

\* The outer loop stopping one sentence early.
RECURSIVE OuterLoop_skip_last(_, _, _)
OuterLoop_skip_last(ag, l0, i) ==
    IF i >= Len(l0) THEN ag
    ELSE OuterLoop_skip_last(OuterIter(ag, l0[i]), l0, i + 1)

\* Line 221: the outer loop iterates the list object l0 that self.knowledge was
\* bound to when the loop started.  Line 231 rebinds self.knowledge before
\* anything is appended, so l0 itself never grows.
RECURSIVE OuterLoop(_, _, _)
OuterLoop(ag, l0, i) ==
    IF i > Len(l0) THEN ag
    ELSE OuterLoop(OuterIter(ag, l0[i]), l0, i + 1)

\* Line 198 alone: the move is recorded, the cell is not marked safe.
RecordMove_unmarked(ag, cell) == [ag EXCEPT !.moves_made = @ \cup {cell}]

\* Lines 198-200.
RecordMove(ag, cell) ==
    LET a == [ag EXCEPT !.moves_made = @ \cup {cell}]
    IN  IF cell \notin a.safes THEN mark_safe(a, cell) ELSE a

\* new_sentence without lines 212-214: known mines stay in the sentence.
new_sentence_keep_mines(ag, cell, count) ==
    Sentence({ c \in Block(cell) : c \notin ag.safes }, count)

\* Lines 202-216, on the agent after lines 198-200.
new_sentence(ag, cell, count) ==
    LET neighbour_cells == { c \in Block(cell) : c \notin ag.safes }
        known_mines_in_neighbours == { c \in neighbour_cells : c \in ag.mines }
    IN  Sentence(neighbour_cells \ known_mines_in_neighbours,
                 count - Cardinality(known_mines_in_neighbours))

\* Lines 198-218: the agent when the inference loop starts.
Observe(ag, cell, count) ==
    LET a == RecordMove(ag, cell)
        n == new_sentence(a, cell, count)
    IN  IF ~InKnowledge(a, n) /\ n.cells # {} THEN Append_knowledge(a, n) ELSE a

\* Lines 198-240.
add_knowledge(ag, cell, count) ==
    LET a == Observe(ag, cell, count)
    IN  OuterLoop(a, a.kb, 1)

\* make_safe_move without the test of line 253.
make_safe_move_any(ag) == IF ag.safes # {} THEN ag.safes ELSE {None}

\* Lines 252-255: the possible results; a set is iterated in no fixed order,
\* so the first unplayed safe cell met can be any unplayed safe cell.
make_safe_move(ag) ==
    IF \E safe_cell \in ag.safes : safe_cell \notin ag.moves_made
    THEN { safe_cell \in ag.safes : safe_cell \notin ag.moves_made }
    ELSE {None}

\* Lines 268 and 282: a cell make_random_move may not return.
Excluded(ag, cell) == cell \in ag.mines \/ cell \in ag.moves_made

\* Lines 279-284: the row-major scan.
Before(c, d) == c[1] < d[1] \/ (c[1] = d[1] /\ c[2] < d[2])
\* The scan testing moves_made only.
Scan_ignoring_mines(ag) ==
    IF \E c \in Cells : c \notin ag.moves_made
    THEN CHOOSE c \in Cells :
            /\ c \notin ag.moves_made
            /\ \A d \in Cells : Before(d, c) => d \in ag.moves_made
    ELSE None

Scan(ag) ==
    IF \E c \in Cells : ~Excluded(ag, c)
    THEN CHOOSE c \in Cells :
            /\ ~Excluded(ag, c)
            /\ \A d \in Cells : Before(d, c) => Excluded(ag, d)
    ELSE None

\* Lines 268-284 for every outcome of random.randrange: the possible results
\* when the while condition is evaluated with the given value of counter and
\* the sampled cell can be any cell.  An excluded sample is replaced by a new
\* one and counter incremented; at MaxTries the loop breaks and the scan
\* decides, whatever the last sample was.
RECURSIVE Sampling(_, _)
Sampling(ag, counter) ==
    { cell \in Cells : ~Excluded(ag, cell) }
    \cup IF \E cell \in Cells : Excluded(ag, cell)
         THEN IF counter + 1 >= MaxTries
              THEN {Scan(ag)}
              ELSE Sampling(ag, counter + 1)
         ELSE {}

\* Lines 264-284.
make_random_move(ag) == Sampling(ag, 0)

----------------------------------------------------------------------------
(* The callers *)

Self == Agent(moves_made, safes, mines, knowledge)

\* The agent's fields after a call that left the agent as ag.
Becomes(ag) ==
    /\ moves_made' = ag.moves_made
    /\ safes' = ag.safes
    /\ mines' = ag.mines
    /\ knowledge' = Values(ag)

\* No add_knowledge call in progress.
Idle ==
    [pc |-> "idle", cell |-> None, count |-> 0, heap |-> <<>>, kb |-> <<>>,
     l0 |-> <<>>, i |-> 0, j |-> 0, sentence_safes |-> {}, sentence_mines |-> {}]

Fresh ==
    /\ moves_made = {}
    /\ safes = {}
    /\ mines = {}
    /\ knowledge = <<>>
    /\ op = "init"
    /\ arg = None
    /\ ret = None
    /\ obs = Sentence({}, 0)
    /\ kbIns = <<>>
    /\ calls = 0
    /\ run = Idle

\* Consistent play: a board with a fixed mine layout (Minesweeper.__init__)
\* and a fresh agent (MinesweeperAI.__init__).
Init ==
    /\ board \in SUBSET Cells
    /\ Fresh

\* A call sequence is explored up to its first move query: what follows a
\* query is what follows the state it was asked in.
Playing == op \notin {"make_safe_move", "make_random_move"}

\* add_knowledge(cell, count) as the game loop calls it: a cell that is not a
\* mine, with the board's count for it.
AddKnowledge ==
    /\ Playing
    /\ \E cell \in Cells \ board :
        LET count == nearby_mines(board, cell)
        IN  /\ Becomes(add_knowledge(Self, cell, count))
            /\ op' = "add_knowledge"
            /\ arg' = cell
            /\ ret' = None
            /\ obs' = new_sentence(RecordMove(Self, cell), cell, count)
            /\ kbIns' = Values(Observe(Self, cell, count))
            /\ UNCHANGED <<board, calls, run>>

\* make_safe_move recording the move it proposes.
MakeSafeMove_recording ==
    /\ Playing
    /\ ret' \in make_safe_move(Self)
    /\ moves_made' = IF ret' = None THEN moves_made ELSE moves_made \cup {ret'}
    /\ op' = "make_safe_move"
    /\ arg' = None
    /\ UNCHANGED <<board, safes, mines, knowledge, obs, kbIns, calls, run>>

MakeSafeMove ==
    /\ Playing
    /\ ret' \in make_safe_move(Self)
    /\ op' = "make_safe_move"
    /\ arg' = None
    /\ UNCHANGED <<board, moves_made, safes, mines, knowledge, obs, kbIns, calls, run>>

MakeRandomMove ==
    /\ Playing
    /\ ret' \in make_random_move(Self)
    /\ op' = "make_random_move"
    /\ arg' = None
    /\ UNCHANGED <<board, moves_made, safes, mines, knowledge, obs, kbIns, calls, run>>

Next == AddKnowledge \/ MakeSafeMove \/ MakeRandomMove

Spec == Init /\ [][Next]_vars

----------------------------------------------------------------------------
(* Any caller: add_knowledge with any in-bounds cell and any count up to   *)
(* MaxCount, and the agent-level marks called in isolation, MaxCalls calls *)
(* in all.  The board plays no part.                                       *)

InitFree ==
    /\ board = {}
    /\ Fresh

AddKnowledgeAny ==
    /\ Playing
    /\ calls < MaxCalls
    /\ \E cell \in Cells, count \in 0 .. MaxCount :
        /\ Becomes(add_knowledge(Self, cell, count))
        /\ op' = "add_knowledge"
        /\ arg' = cell
        /\ ret' = None
        /\ obs' = new_sentence(RecordMove(Self, cell), cell, count)
        /\ kbIns' = Values(Observe(Self, cell, count))
        /\ calls' = calls + 1
        /\ UNCHANGED <<board, run>>

MarkSafe ==
    /\ Playing
    /\ run.pc = "idle"
    /\ calls < MaxCalls
    /\ \E cell \in Cells :
        /\ Becomes(mark_safe(Self, cell))
        /\ op' = "mark_safe"
        /\ arg' = cell
        /\ ret' = None
        /\ calls' = calls + 1
        /\ UNCHANGED <<board, obs, kbIns, run>>

MarkMine ==
    /\ Playing
    /\ run.pc = "idle"
    /\ calls < MaxCalls
    /\ \E cell \in Cells :
        /\ Becomes(mark_mine(Self, cell))
        /\ op' = "mark_mine"
        /\ arg' = cell
        /\ ret' = None
        /\ calls' = calls + 1
        /\ UNCHANGED <<board, obs, kbIns, run>>

NextFree ==
    AddKnowledgeAny \/ MarkSafe \/ MarkMine \/ MakeSafeMove \/ MakeRandomMove

SpecFree == InitFree /\ [][NextFree]_vars

----------------------------------------------------------------------------
(* add_knowledge statement by statement.  run.pc is the position in the    *)
(* body: "record" before line 198, "insert" before line 202, "outer" at    *)
(* the head of the loop of line 221, "marks" inside the loops of lines     *)
(* 226-229, "inner" at the head of the loop of line 233.  The agent's      *)
(* fields are the variables; run.heap and run.kb hold the objects of       *)
(* self.knowledge, run.l0 the list the outer loop iterates.                *)

Running ==
    [moves_made |-> moves_made, safes |-> safes, mines |-> mines,
     heap |-> run.heap, kb |-> run.kb]

\* A statement leaves the agent as ag and the locals as r.
Continue(ag, r) ==
    /\ Becomes(ag)
    /\ run' = [r EXCEPT !.heap = ag.heap, !.kb = ag.kb]

\* The call add_knowledge(cell, count) is entered.
Enter(cell, count) ==
    /\ run.pc = "idle"
    /\ calls' = calls + 1
    /\ run' = [Idle EXCEPT !.pc = "record", !.cell = cell, !.count = count,
                           !.heap = knowledge,
                           !.kb = [i \in 1 .. Len(knowledge) |-> i]]
    /\ UNCHANGED <<board, moves_made, safes, mines, knowledge, op, arg, ret,
                   obs, kbIns>>

\* The game loop's call: a cell that is not a mine, with the board's count.
StepCall ==
    /\ calls < MaxEntries
    /\ \E cell \in Cells \ board : Enter(cell, nearby_mines(board, cell))

\* Any caller's call, one of MaxCalls calls.
StepCallAny ==
    /\ calls < MaxCalls
    /\ \E cell \in Cells, count \in 0 .. MaxCount : Enter(cell, count)

\* Any caller's call, one of MaxEntries calls.
StepCallMore ==
    /\ calls < MaxEntries
    /\ \E cell \in Cells, count \in 0 .. MaxCount : Enter(cell, count)

\* Lines 198-200.
StepRecord ==
    /\ run.pc = "record"
    /\ Continue(RecordMove(Running, run.cell), [run EXCEPT !.pc = "insert"])
    /\ UNCHANGED <<board, op, arg, ret, obs, kbIns, calls>>

\* Lines 202-218, and line 221 binding the list the outer loop iterates.
StepInsert ==
    /\ run.pc = "insert"
    /\ LET n == new_sentence(Running, run.cell, run.count)
           a == IF ~InKnowledge(Running, n) /\ n.cells # {}
                THEN Append_knowledge(Running, n) ELSE Running
       IN  /\ Continue(a, [run EXCEPT !.pc = "outer", !.l0 = a.kb, !.i = 1])
           /\ obs' = n
           /\ kbIns' = Values(a)
    /\ UNCHANGED <<board, op, arg, ret, calls>>

\* Lines 221-224: the next sentence of l0, and the copies of what it knows.
StepOuter ==
    /\ run.pc = "outer"
    /\ run.i <= Len(run.l0)
    /\ run' = [run EXCEPT !.pc = "marks",
                          !.sentence_safes = known_safes(run.heap[run.l0[run.i]]),
                          !.sentence_mines = known_mines(run.heap[run.l0[run.i]])]
    /\ UNCHANGED <<board, moves_made, safes, mines, knowledge, op, arg, ret,
                   obs, kbIns, calls>>

\* Lines 226-227: one iteration, on whichever cell the set yields next.
StepMarkSafe ==
    /\ run.pc = "marks"
    /\ \E cell \in run.sentence_safes :
        Continue(mark_safe(Running, cell),
                 [run EXCEPT !.sentence_safes = @ \ {cell}])
    /\ UNCHANGED <<board, op, arg, ret, obs, kbIns, calls>>

\* Lines 228-229: one iteration, once the loop of lines 226-227 is over.
StepMarkMine ==
    /\ run.pc = "marks"
    /\ run.sentence_safes = {}
    /\ \E cell \in run.sentence_mines :
        Continue(mark_mine(Running, cell),
                 [run EXCEPT !.sentence_mines = @ \ {cell}])
    /\ UNCHANGED <<board, op, arg, ret, obs, kbIns, calls>>

\* Line 231, and line 233 starting the inner loop on the new list.
StepDrop ==
    /\ run.pc = "marks"
    /\ run.sentence_safes = {}
    /\ run.sentence_mines = {}
    /\ Continue(DropEmpty(Running), [run EXCEPT !.pc = "inner", !.j = 1])
    /\ UNCHANGED <<board, op, arg, ret, obs, kbIns, calls>>

\* Lines 233-240: one iteration of the inner loop.
StepInner ==
    /\ run.pc = "inner"
    /\ run.j <= Len(run.kb)
    /\ LET s == run.heap[run.l0[run.i]]
           o == run.heap[run.kb[run.j]]
           a == IF s # o /\ o.cells \subseteq s.cells
                     /\ ~InKnowledge(Running, subset_sentence(s, o))
                THEN Append_knowledge(Running, subset_sentence(s, o))
                ELSE Running
       IN  Continue(a, [run EXCEPT !.j = @ + 1])
    /\ UNCHANGED <<board, op, arg, ret, obs, kbIns, calls>>

\* The inner loop staying on the same sentence of l0 when it is exhausted.
StepInnerDone_same_sentence ==
    /\ run.pc = "inner"
    /\ run.j > Len(run.kb)
    /\ run' = [run EXCEPT !.pc = "outer", !.j = 0]
    /\ UNCHANGED <<board, moves_made, safes, mines, knowledge, op, arg, ret,
                   obs, kbIns, calls>>

\* The inner loop is exhausted: back to line 221 for the next sentence of l0.
StepInnerDone ==
    /\ run.pc = "inner"
    /\ run.j > Len(run.kb)
    /\ run' = [run EXCEPT !.pc = "outer", !.i = @ + 1, !.j = 0]
    /\ UNCHANGED <<board, moves_made, safes, mines, knowledge, op, arg, ret,
                   obs, kbIns, calls>>

\* The outer loop is exhausted: add_knowledge returns.
StepReturn ==
    /\ run.pc = "outer"
    /\ run.i > Len(run.l0)
    /\ run' = Idle
    /\ op' = "add_knowledge"
    /\ arg' = run.cell
    /\ ret' = None
    /\ UNCHANGED <<board, moves_made, safes, mines, knowledge, obs, kbIns, calls>>

\* The statements of the body.
Body ==
    \/ StepRecord
    \/ StepInsert
    \/ StepOuter
    \/ StepMarkSafe
    \/ StepMarkMine
    \/ StepDrop
    \/ StepInner
    \/ StepInnerDone
    \/ StepReturn

\* Consistent play, the body followed statement by statement.
NextStep == StepCall \/ Body

SpecStep == Init /\ [][NextStep]_vars

\* Any caller.  A call that was entered keeps running: nothing but its own
\* next statement can happen, and it does.
NextStepAny == StepCallAny \/ MarkSafe \/ MarkMine \/ Body

SpecStepAny == InitFree /\ [][NextStepAny]_vars /\ WF_vars(Body)

\* Any caller making up to MaxEntries calls, of which the marks come among
\* the first MaxCalls.
NextStepMore == StepCallMore \/ MarkSafe \/ MarkMine \/ Body

SpecStepMore == InitFree /\ [][NextStepMore]_vars /\ WF_vars(Body)

----------------------------------------------------------------------------
(* A Sentence on its own: Sentence(cells, count) built from any cells of   *)
(* the board and any count from -1 to one more than the number of cells,   *)
(* held as knowledge[1], and its four methods called in any order.         *)

SentenceCounts == (0 - 1) .. (Height * Width + 1)

InitSentence ==
    /\ board = {}
    /\ moves_made = {}
    /\ safes = {}
    /\ mines = {}
    /\ knowledge \in { <<Sentence(cells, count)>> :
                          cells \in SUBSET Cells, count \in SentenceCounts }
    /\ op = "init"
    /\ arg = None
    /\ ret = None
    /\ obs = Sentence({}, 0)
    /\ kbIns = <<>>
    /\ calls = 0
    /\ run = Idle

SentenceKnownMines ==
    /\ ret' = known_mines(knowledge[1])
    /\ op' = "known_mines"
    /\ arg' = None
    /\ UNCHANGED <<board, moves_made, safes, mines, knowledge, obs, kbIns, calls, run>>

SentenceKnownSafes ==
    /\ ret' = known_safes(knowledge[1])
    /\ op' = "known_safes"
    /\ arg' = None
    /\ UNCHANGED <<board, moves_made, safes, mines, knowledge, obs, kbIns, calls, run>>

SentenceMarkMine ==
    \E cell \in Cells :
        /\ knowledge' = <<Sentence_mark_mine(knowledge[1], cell)>>
        /\ op' = "Sentence.mark_mine"
        /\ arg' = cell
        /\ ret' = None
        /\ UNCHANGED <<board, moves_made, safes, mines, obs, kbIns, calls, run>>

SentenceMarkSafe ==
    \E cell \in Cells :
        /\ knowledge' = <<Sentence_mark_safe(knowledge[1], cell)>>
        /\ op' = "Sentence.mark_safe"
        /\ arg' = cell
        /\ ret' = None
        /\ UNCHANGED <<board, moves_made, safes, mines, obs, kbIns, calls, run>>

NextSentence ==
    SentenceKnownMines \/ SentenceKnownSafes \/ SentenceMarkMine \/ SentenceMarkSafe

SpecSentence == InitSentence /\ [][NextSentence]_vars

----------------------------------------------------------------------------
(* Properties *)

\* The sentences of a list of sentence values.
Sentences(kn) == { kn[i] : i \in DOMAIN kn }

\* C1: when add_knowledge returns, for any two sentences A and B that the
\* knowledge base held right after the observation sentence was inserted,
\* with B.cells a proper subset of A.cells and A.count = B.count, every cell
\* of A.cells minus B.cells is in safes.
SubsetResolutionTakesEffect ==
    op = "add_knowledge" =>
        \A A \in Sentences(kbIns), B \in Sentences(kbIns) :
            (B.cells \subseteq A.cells /\ B.cells # A.cells /\ A.count = B.count)
                => (A.cells \ B.cells) \subseteq safes

\* C2: when add_knowledge returns, no sentence of the knowledge base has a
\* non-empty cell set together with count = 0 or count = |cells|.
FixpointOnReturn ==
    op = "add_knowledge" =>
        \A s \in Sentences(knowledge) :
            s.cells # {} => (s.count # 0 /\ s.count # Cardinality(s.cells))

\* C3: under consistent play safes and mines are disjoint.
SafesMinesDisjoint == safes \cap mines = {}

\* C3 witness: a call has returned with cells inferred safe and cells
\* inferred to be mines.
SafesMinesDisjointWitness ==
    /\ op = "add_knowledge"
    /\ mines # {}
    /\ safes \ moves_made # {}

\* C6: if the observation sentence add_knowledge derived is non-empty with
\* count 0, every cell of it is in safes when the call returns.
AllSafeConclusion ==
    (op = "add_knowledge" /\ obs.cells # {} /\ obs.count = 0)
        => obs.cells \subseteq safes

\* C6 witness: such a call has returned, on a knowledge base that already
\* held sentences.
AllSafeWitness ==
    /\ op = "add_knowledge"
    /\ obs.cells # {}
    /\ obs.count = 0
    /\ Cardinality(moves_made) >= 2
    /\ knowledge # <<>>

\* C7: if the observation sentence add_knowledge derived is non-empty with
\* count equal to the number of its cells, every cell of it is in mines when
\* the call returns.
AllMineConclusion ==
    (op = "add_knowledge" /\ obs.cells # {} /\ obs.count = Cardinality(obs.cells))
        => obs.cells \subseteq mines

\* C7 witness: such a call has returned, after earlier calls had resolved
\* some of the queried cell's neighbours.
AllMineWitness ==
    /\ op = "add_knowledge"
    /\ obs.cells # {}
    /\ obs.count = Cardinality(obs.cells)
    /\ obs.cells # Block(arg) \ {arg}

\* C4: whenever add_knowledge, mark_safe or mark_mine returns, no cell that
\* is in safes or in mines appears in a sentence of the knowledge base.
MarkedCellsLeaveKnowledge ==
    op \in {"add_knowledge", "mark_safe", "mark_mine"} =>
        \A s \in Sentences(knowledge) : s.cells \cap (safes \cup mines) = {}

\* C4 witness: add_knowledge has returned with a sentence synthesized by
\* subset resolution in the knowledge base, after a cell was marked.
MarkedCellsWitness ==
    /\ op = "add_knowledge"
    /\ (safes \cup mines) \ {arg} # {}
    /\ Len(knowledge) > Len(kbIns)

\* C5: no call shrinks safes, mines or moves_made.
Monotonicity ==
    [][ /\ moves_made \subseteq moves_made'
        /\ safes \subseteq safes'
        /\ mines \subseteq mines' ]_vars

\* C5 witness: a cell marked as a mine has afterwards been marked safe.
MonotonicityWitness ==
    /\ op \in {"mark_safe", "add_knowledge"}
    /\ arg \in mines
    /\ arg \in safes

\* C8: make_safe_move returns None exactly when every cell of safes is in
\* moves_made, and otherwise a cell of safes that is not in moves_made.
SafeMoveResult ==
    op = "make_safe_move" =>
        IF safes \subseteq moves_made
        THEN ret = None
        ELSE ret \in safes /\ ret \notin moves_made

\* C8 witness: make_safe_move has returned a cell while other safe cells were
\* already played.
SafeMoveWitness ==
    /\ op = "make_safe_move"
    /\ ret # None
    /\ moves_made # {}

\* C9: make_random_move returns None if and only if every cell is in mines
\* or in moves_made, and otherwise a cell that is in neither.
RandomMoveResult ==
    op = "make_random_move" =>
        IF \A c \in Cells : c \in mines \/ c \in moves_made
        THEN ret = None
        ELSE ret \in Cells /\ ret \notin mines /\ ret \notin moves_made

\* C9 witness: make_random_move has returned None on a board with known
\* mines and played cells.
RandomMoveWitness ==
    /\ op = "make_random_move"
    /\ ret = None
    /\ mines # {}
    /\ moves_made # {}

\* C10: a call of make_safe_move or make_random_move leaves moves_made,
\* safes, mines and the knowledge base as they were.
QueriesReadOnly ==
    [][ op' \in {"make_safe_move", "make_random_move"}
            => UNCHANGED <<moves_made, safes, mines, knowledge>> ]_vars

\* C10 witness: a query has returned a cell to an agent that holds sentences
\* and an unplayed safe cell.
QueriesWitness ==
    /\ op = "make_safe_move"
    /\ ret # None
    /\ knowledge # <<>>

\* C11: agent-level mark_safe(cell) adds cell to safes and removes it from
\* every sentence, counts unchanged; agent-level mark_mine(cell) adds cell to
\* mines and removes it from every sentence, decrementing the count of the
\* sentences that contained it; both leave moves_made and the other set
\* alone and neither adds nor removes sentences.
AgentMarksFrame ==
    [][ /\ op' = "mark_safe" =>
            /\ safes' = safes \cup {arg'}
            /\ mines' = mines
            /\ moves_made' = moves_made
            /\ Len(knowledge') = Len(knowledge)
            /\ \A i \in DOMAIN knowledge :
                knowledge'[i] = [cells |-> knowledge[i].cells \ {arg'},
                                 count |-> knowledge[i].count]
        /\ op' = "mark_mine" =>
            /\ mines' = mines \cup {arg'}
            /\ safes' = safes
            /\ moves_made' = moves_made
            /\ Len(knowledge') = Len(knowledge)
            /\ \A i \in DOMAIN knowledge :
                knowledge'[i] =
                    [cells |-> knowledge[i].cells \ {arg'},
                     count |-> IF arg' \in knowledge[i].cells
                               THEN knowledge[i].count - 1
                               ELSE knowledge[i].count] ]_vars

\* C11 witness: mark_mine has returned for a cell of the sentence that the
\* preceding add_knowledge had inserted, one less in its count.
AgentMarksWitness ==
    /\ op = "mark_mine"
    /\ Len(kbIns) = 1
    /\ Len(knowledge) = 1
    /\ arg \in kbIns[1].cells
    /\ knowledge[1] = [cells |-> kbIns[1].cells \ {arg}, count |-> kbIns[1].count - 1]

\* C12: add_knowledge called again right after a call with the same cell
\* (and, the board being fixed, the same count) leaves moves_made, safes,
\* mines and the set of sentences as the first call left them.
RepeatIsIdempotent ==
    [][ (op = "add_knowledge" /\ op' = "add_knowledge" /\ arg' = arg) =>
            /\ moves_made' = moves_made
            /\ safes' = safes
            /\ mines' = mines
            /\ Sentences(knowledge') = Sentences(knowledge) ]_vars

\* C19: under consistent play every cell of mines is a mine of the board, no
\* cell of safes is, every sentence's count is the number of its cells that
\* are mines of the board, and make_safe_move never returns a mine.
Soundness ==
    /\ mines \subseteq board
    /\ safes \cap board = {}
    /\ \A s \in Sentences(knowledge) : s.count = Cardinality(s.cells \cap board)
    /\ (op = "make_safe_move" /\ ret # None) => ret \notin board

\* C19 witness: make_safe_move has returned an inferred safe cell on a board
\* some of whose mines the agent has found, with sentences still open.
SoundnessWitness ==
    /\ op = "make_safe_move"
    /\ ret # None
    /\ mines # {}
    /\ knowledge # <<>>

\* C16: Sentence.mark_mine and Sentence.mark_safe change nothing when the
\* cell is absent, and applied a second time with the same cell leave the
\* sentence as the first application left it.
SentenceMarksIdempotent ==
    [][ /\ ( /\ op' \in {"Sentence.mark_mine", "Sentence.mark_safe"}
             /\ arg' \notin knowledge[1].cells ) => knowledge' = knowledge
        /\ ( /\ op \in {"Sentence.mark_mine", "Sentence.mark_safe"}
             /\ op' = op
             /\ arg' = arg ) => knowledge' = knowledge ]_vars

\* C16 witness: mark_mine has removed a cell from a sentence and lowered its
\* count.
SentenceMarksWitness ==
    /\ op = "Sentence.mark_mine"
    /\ arg \notin knowledge[1].cells
    /\ knowledge[1].cells # {}
    /\ knowledge[1].count < 0 - 1

\* C17: known_mines returns exactly cells when count = |cells| and the empty
\* set otherwise, known_safes returns exactly cells when count = 0 and the
\* empty set otherwise, and neither changes the sentence.
SentenceQueries ==
    [][ /\ op' = "known_mines" =>
            /\ ret' = IF knowledge[1].count = Cardinality(knowledge[1].cells)
                      THEN knowledge[1].cells ELSE {}
            /\ knowledge' = knowledge
        /\ op' = "known_safes" =>
            /\ ret' = IF knowledge[1].count = 0 THEN knowledge[1].cells ELSE {}
            /\ knowledge' = knowledge ]_vars

\* C17 witness: known_mines has returned the cells of a sentence all of
\* whose cells are mines, reached by marking.
SentenceQueriesWitness ==
    /\ op = "known_mines"
    /\ knowledge[1].cells # {}
    /\ ret = knowledge[1].cells
    /\ knowledge[1].count = Cardinality(knowledge[1].cells)

\* C20: an add_knowledge call that was entered returns, and its outer loop
\* never goes past the sentences that were in the knowledge base when the loop
\* started.
Termination ==
    /\ (run.pc # "idle") ~> (run.pc = "idle")
    /\ [](run.pc \in {"outer", "marks", "inner"} =>
            /\ Len(run.l0) = Len(kbIns)
            /\ run.i <= Len(kbIns) + 1)

\* C20 witness: a call whose inner loop appended a difference sentence to the
\* list it was iterating has returned.
TerminationWitness ==
    /\ run.pc = "idle"
    /\ op = "add_knowledge"
    /\ Len(knowledge) > Len(kbIns)

\* C13: under consistent play every sentence of the knowledge base has
\* 0 <= count <= |cells|, in the states between calls and in every state
\* inside add_knowledge.
CountWithinCells ==
    \A s \in Sentences(knowledge) :
        /\ 0 <= s.count
        /\ s.count <= Cardinality(s.cells)

\* C13 witness: inside add_knowledge, in the inner loop, after a mark has
\* been made and a difference sentence appended in this call.
CountWithinCellsWitness ==
    /\ run.pc = "inner"
    /\ Len(run.heap) > Len(kbIns)
    /\ mines # {}
    /\ \E s \in Sentences(knowledge) : 0 < s.count /\ s.count < Cardinality(s.cells)

\* C14: when add_knowledge returns, no sentence of the knowledge base has an
\* empty cell set.
NoVacuousSentence ==
    (run.pc = "idle" /\ op = "add_knowledge") =>
        \A s \in Sentences(knowledge) : s.cells # {}

\* C15: the first add_knowledge(cell, count) on a fresh agent, with
\* 0 < count < the number of in-bounds neighbours of cell, returns with
\* exactly one sentence, the neighbours of cell = count, with safes and
\* moves_made {cell} and no mines.
FirstObservation ==
    LET count == nearby_mines(board, arg)
        neighbours == Block(arg) \ {arg}
    IN  ( /\ run.pc = "idle"
          /\ op = "add_knowledge"
          /\ calls = 1
          /\ 0 < count
          /\ count < Cardinality(neighbours) ) =>
            /\ knowledge = <<[cells |-> neighbours, count |-> count]>>
            /\ safes = {arg}
            /\ moves_made = {arg}
            /\ mines = {}

\* C15 witness: such a first call has returned, for a cell with five
\* neighbours.
FirstObservationWitness ==
    /\ run.pc = "idle"
    /\ op = "add_knowledge"
    /\ calls = 1
    /\ nearby_mines(board, arg) = 2
    /\ Len(knowledge) = 1
    /\ Cardinality(knowledge[1].cells) = 5

\* C18 as stated: add_knowledge(cell, count) first adds cell to moves_made
\* and safes, then builds the sentence of the in-bounds cells around cell in
\* neither safes nor mines, with count minus the number of in-bounds
\* neighbours in mines, and appends it iff it has cells and no equal sentence
\* is present.
ObservationSentence ==
    [][ /\ run.pc = "record" =>
            /\ moves_made' = moves_made \cup {run.cell}
            /\ safes' = safes \cup {run.cell}
        /\ run.pc = "insert" =>
            LET neighbours == Block(run.cell) \ {run.cell}
                cells == { c \in Block(run.cell) : c \notin safes /\ c \notin mines }
                count == run.count - Cardinality({ c \in neighbours : c \in mines })
                n == [cells |-> cells, count |-> count]
            IN  /\ obs' = n
                /\ knowledge' = IF cells # {} /\ n \notin Sentences(knowledge)
                                THEN Append(knowledge, n) ELSE knowledge ]_vars

\* C18 amended: the same, with count minus the number of in-bounds
\* neighbours that are in mines and not in safes.
ObservationSentenceUnsafeMines ==
    [][ /\ run.pc = "record" =>
            /\ moves_made' = moves_made \cup {run.cell}
            /\ safes' = safes \cup {run.cell}
        /\ run.pc = "insert" =>
            LET neighbours == Block(run.cell) \ {run.cell}
                cells == { c \in Block(run.cell) : c \notin safes /\ c \notin mines }
                count == run.count - Cardinality({ c \in neighbours :
                                                     c \in mines /\ c \notin safes })
                n == [cells |-> cells, count |-> count]
            IN  /\ obs' = n
                /\ knowledge' = IF cells # {} /\ n \notin Sentences(knowledge)
                                THEN Append(knowledge, n) ELSE knowledge ]_vars

\* C18 witness: the observation sentence has just been appended, with a count
\* lowered by a known mine, beside a sentence that was there before.
ObservationSentenceWitness ==
    /\ run.pc = "outer"
    /\ run.i = 1
    /\ Len(kbIns) > 1
    /\ kbIns[Len(kbIns)] = obs
    /\ obs.count < run.count

====
